---- MODULE Spec2Model ----
(***************************************************************************)
(* Client-side session lifecycle of UniResource Hub: the AuthProvider of   *)
(* frontend/src/context/AuthContext.tsx, the shared axios client and its   *)
(* two interceptors (frontend/src/services/api.ts), and of the Resources   *)
(* page the bookmark toggle, the resource list and the file download.      *)
(*                                                                         *)
(* JavaScript runs every handler to completion, so one action is one run   *)
(* of a handler from the event that starts it (a click, a mount, the       *)
(* arrival of a response) to its next await.  The arrival of a response    *)
(* runs the response interceptor and then the continuation of the caller   *)
(* that awaits it, in that order, in one action.                           *)
(***************************************************************************)
EXTENDS Integers, Sequences, FiniteSets, Bags, TLC

\* ---------------------------------------------------------------- bounds
\* Number of operations started by the user (login, register, refreshUser,
\* a facade call) that may be in flight at the same time.
MaxOps == 2

\* Number of toggle-bookmark requests of the Resources page in flight at the
\* same time.
MaxToggles == 2

\* Number of requests of the Resources page (category list, resource list) in
\* flight at the same time.
MaxListReqs == 2

\* ------------------------------------------------------------ the values
\* access_token values the token endpoint of the stub backend returns.
Tokens == {"tok0", "tok1"}

\* Identities GET /auth/me of the stub backend returns (the fields of User
\* that the client never inspects are left out).
Identities == {[id |-> 1, email |-> "a@x.com"], [id |-> 2, email |-> "b@x.com"]}

\* The value of useState<User | null>(null).
NullUser == [id |-> 0, email |-> "null"]

\* Resource ids shown on the Resources page.
Resources == {1, 2}

\* Outcome of a request: an HTTP status, or 0 for a transport failure (no
\* response, error.response undefined).
Status401 == 401
Statuses == {200, 401, 500, 0}
Errors == Statuses \ {200}

\* "No error was thrown" in the record of a completed operation.
NoError == -1

\* ------------------------------------------------------- localStorage
\* A stored item is a sequence; getItem of a missing key (null) is <<>>.
NoItem == <<>>

\* The string stored for an access token.
TokenItem(t) == <<t>>

\* JSON.stringify of an identity, and JSON.parse of the stored text.
Stringify(u) == <<"id", u.id, "email", u.email>>
Parse(s) == [id |-> s[2], email |-> s[4]]

getItem(st, k) == st[k]
setItem(st, k, v) == [st EXCEPT ![k] = v]
removeItem(st, k) == [st EXCEPT ![k] = NoItem]

\* if (x) on a string-or-null value.
Truthy(v) == v # NoItem

EmptyStorage == [access_token |-> NoItem, user |-> NoItem]

\* Every content localStorage can have when the page is loaded.
StorageContents == [access_token : {NoItem} \cup {TokenItem(t) : t \in Tokens},
                    user : {NoItem} \cup {Stringify(u) : u \in Identities}]

\* ------------------------------------------------------- the HTTP client
\* api.interceptors.request: the Authorization header put on a request that
\* is dispatched while localStorage is st (<<>>: no header).
RequestInterceptor_NoHeader(st) == <<>>
RequestInterceptor(st) ==
    LET token == getItem(st, "access_token")
    IN  IF Truthy(token) THEN <<"Bearer", token[1]>> ELSE <<>>

\* api.interceptors.response, error branch: the storage it leaves behind.
ResponseInterceptor_TokenOnly(st, status) ==
    IF status = Status401 THEN removeItem(st, "access_token") ELSE st
ResponseInterceptor_AnyError(st, status) ==
    IF status # 200 THEN removeItem(removeItem(st, "access_token"), "user") ELSE st
ResponseInterceptor(st, status) ==
    IF status = Status401
    THEN removeItem(removeItem(st, "access_token"), "user")
    ELSE st

\* window.location.href = '/login' of the same branch.
RedirectsToLogin_AnyError(status) == status # 200
RedirectsToLogin(status) == status = Status401

\* ---------------------------------------------------- AuthContext pieces
\* initializeAuth, success branch: setUser(response.data); the saved text is
\* only tested for presence, never parsed.
InitSetUser_Saved(st, data) ==
    IF Truthy(getItem(st, "user")) THEN Parse(getItem(st, "user")) ELSE NullUser
InitSetUser(st, data) == data

\* catch block of initializeAuth.
InitCatch(st) == removeItem(removeItem(st, "access_token"), "user")

\* login, "Store token".
LoginStoreToken_Constant(st, access_token) ==
    setItem(st, "access_token", TokenItem("tok0"))
LoginStoreToken_Skip(st, access_token) == st
LoginStoreToken(st, access_token) ==
    setItem(st, "access_token", TokenItem(access_token))

\* login, "Store user data": the storage and the in-memory identity.
LoginStoreUser(st, userData) == setItem(st, "user", Stringify(userData))
LoginSetUser(u, userData) == userData

\* catch block of login: the storage it leaves, the identity it leaves in
\* memory, and the error it throws.
LoginCatchStorage_UserOnly(st) == removeItem(st, "user")
LoginCatchStorage(st) == removeItem(removeItem(st, "access_token"), "user")
LoginCatchUser(u) == u
LoginCatchThrow(error) == error

\* catch block of register.
RegisterCatchThrow(error) == error

\* logout.
LogoutStorage_TokenOnly(st) == removeItem(st, "access_token")
LogoutUser_Keep(u) == u
LogoutStorage(st) == removeItem(removeItem(st, "access_token"), "user")
LogoutUser(u) == NullUser

\* refreshUser, success branch, and updateUser.
RefreshStoreUser_WithToken(st, userData) ==
    setItem(setItem(st, "user", Stringify(userData)), "access_token", TokenItem("tok0"))
RefreshStoreUser(st, userData) == setItem(st, "user", Stringify(userData))
UpdateStoreUser_DropToken(st, userData) ==
    setItem(removeItem(st, "access_token"), "user", Stringify(userData))
UpdateStoreUser(st, userData) == setItem(st, "user", Stringify(userData))

\* ----------------------------------------------------------- the state
VARIABLES
    ls,           \* localStorage: [access_token, user]
    user,         \* AuthProvider state `user`
    isLoading,    \* AuthProvider state `isLoading`
    mounted,      \* the mount effect of AuthProvider has run
    navPending,   \* window.location.href was assigned, page not yet replaced
    ops,          \* bag of the asynchronous operations awaiting a response
    last,         \* the handler run that produced this state
    batch401,     \* a 401 arrived among concurrent requests, no new call since
    bookmarkedResources,  \* ResourcesPage state: Set<number>
    srvBookmarks, \* bookmark membership held by the backend
    toggles,      \* bag of toggle-bookmark requests in flight
    tally,        \* per resource: what the toggles since page load did
    resourcesPage,  \* ResourcesPage state: filters, categories, list shown
    pageReqs,     \* bag of category-list and resource-list requests in flight
    listCall,     \* the last call of resourcesAPI.getResources
    profilePage,  \* ProfilePage state: passwordData and saving
    passwordReqs  \* number of change-password requests in flight

authVars == <<ls, user, isLoading, mounted, navPending, ops, last, batch401>>
listVars == <<resourcesPage, pageReqs, listCall>>
profileVars == <<profilePage, passwordReqs>>
pageVars == <<bookmarkedResources, srvBookmarks, toggles, tally, listVars, profileVars>>
vars == <<ls, user, isLoading, mounted, navPending, ops, last, batch401,
          bookmarkedResources, srvBookmarks, toggles, tally, listVars, profileVars>>

isAuthenticated == user # NullUser

\* An operation suspended at an await.  kind: which function; pc: the request
\* it awaits; via: login was called by register; solo (kept for initializeAuth,
\* login and register): no other operation ran since it started; tok:
\* access_token login got from the token endpoint (for refreshUser: that of the
\* Login it directly follows).
Op(kind, pc, via, solo, tok) ==
    [kind |-> kind, pc |-> pc, via |-> via, solo |-> solo, tok |-> tok]

\* The record of a handler run: op and outcome name what ran and how it
\* ended, status is the response it handled, thrown the error it threw to its
\* caller, via/solo/tok are those of the operation, ident the identity the
\* backend returned, again tells that logout ran right after a logout, sent
\* is the request the run dispatched ("": none) and hdr the Authorization
\* header the request interceptor put on it.
Ran(op, outcome, via, status, thrown, solo, tok, ident, sent, hdr) ==
    [op |-> op, outcome |-> outcome, via |-> via, status |-> status,
     thrown |-> thrown, solo |-> solo, tok |-> tok, ident |-> ident,
     again |-> (op = "logout" /\ last.op = "logout"),
     sent |-> sent, hdr |-> hdr]

\* A run that dispatched nothing.
Event(op, outcome, via, status, thrown, solo, tok, ident) ==
    Ran(op, outcome, via, status, thrown, solo, tok, ident, "", <<>>)

\* A run that started op by dispatching the request `sent` over storage st.
Started(op, sent, st) ==
    Ran(op, "dispatched", FALSE, NoError, NoError, FALSE, NoItem, NullUser,
        sent, RequestInterceptor(st))

\* Every operation in flight has now been overlapped by another one.
Overlapped(B) ==
    LET S == {[o EXCEPT !.solo = FALSE] : o \in BagToSet(B)}
    IN  [x \in S |-> CopiesIn(x, B) + CopiesIn([x EXCEPT !.solo = TRUE], B)]

InFlight(kind, pc) == {o \in BagToSet(ops) : o.kind = kind /\ o.pc = pc}

\* Operations in flight that the user started (all but initializeAuth).
UserOps == BagCardinality(ops) - (IF InFlight("init", "me") # {} THEN 1 ELSE 0)

Without(o) == ops (-) SetToBag({o})

\* A 401 that arrives while another request is in flight opens a batch.
Batch(status) == batch401 \/ (status = Status401 /\ BagCardinality(ops) >= 2)

\* ------------------------------------------------------------ page load
\* What the page remembers of the toggles of each resource since it was
\* loaded: ok tells how many succeeded (0: none, 1: an odd number, 2: an even
\* number, two or more), failed tells that one failed, base is the backend's membership when the page was loaded.
FreshTally(srv) == [r \in Resources |-> [ok |-> 0, failed |-> FALSE, base |-> r \in srv]]

\* A field of a params object: <<>> when the property is undefined, <<v>>
\* when it has the value v.
Undefined == <<>>
Params(limit, offset, query, category_ids, resource_type) ==
    [limit |-> limit, offset |-> offset, query |-> query,
     category_ids |-> category_ids, resource_type |-> resource_type]

\* No call of resourcesAPI.getResources since the page was loaded.
NoCall == [made |-> FALSE,
           params |-> Params(Undefined, Undefined, Undefined, Undefined, Undefined),
           query |-> << >>]

\* A text of n characters c.
Repeat(c, n) == [i \in 1..n |-> c]

PasswordData(currentPassword, newPassword, confirmPassword) ==
    [currentPassword |-> currentPassword, newPassword |-> newPassword,
     confirmPassword |-> confirmPassword]

\* ProfilePage as useState initialises it.
FreshProfile ==
    [passwordData |-> PasswordData(Repeat("a", 0), Repeat("a", 0), Repeat("a", 0)),
     saving |-> FALSE]

\* The state of a freshly loaded page, whatever localStorage and the backend
\* hold.
Loaded ==
    /\ user = NullUser
    /\ isLoading = TRUE
    /\ mounted = FALSE
    /\ navPending = FALSE
    /\ ops = EmptyBag
    /\ last = [op |-> "load", outcome |-> "loaded", via |-> FALSE, status |-> NoError,
               thrown |-> NoError, solo |-> FALSE, tok |-> NoItem, ident |-> NullUser,
               again |-> FALSE, sent |-> "", hdr |-> <<>>]
    /\ batch401 = FALSE
    /\ bookmarkedResources = {}
    /\ toggles = EmptyBag
    /\ tally = FreshTally(srvBookmarks)
    /\ pageReqs = EmptyBag
    /\ listCall = NoCall
    /\ profilePage = FreshProfile
    /\ passwordReqs = 0

\* ------------------------------------------------------- initializeAuth
\* The mount effect: reads both entries and either dispatches GET /auth/me
\* or finishes at once.  React runs it before any later event handler.
InitializeAuth_SavedUserOnly ==
    /\ ~mounted
    /\ mounted' = TRUE
    /\ IF Truthy(getItem(ls, "user"))
       THEN /\ ops' = ops (+) SetToBag({Op("init", "me", FALSE, TRUE, NoItem)})
            /\ isLoading' = isLoading
            /\ last' = Started("init", "GET /auth/me", ls)
       ELSE /\ ops' = ops
            /\ isLoading' = FALSE
            /\ last' = Event("init", "skipped", FALSE, NoError, NoError, TRUE,
                             NoItem, NullUser)
    /\ UNCHANGED <<ls, user, navPending, batch401>>
    /\ UNCHANGED pageVars
InitializeAuth ==
    /\ ~mounted
    /\ mounted' = TRUE
    /\ LET token == getItem(ls, "access_token")
           savedUser == getItem(ls, "user")
       IN  IF Truthy(token) /\ Truthy(savedUser)
           THEN /\ ops' = ops (+) SetToBag({Op("init", "me", FALSE, TRUE, NoItem)})
                /\ isLoading' = isLoading
                /\ last' = Started("init", "GET /auth/me", ls)
           ELSE /\ ops' = ops
                /\ isLoading' = FALSE
                /\ last' = Event("init", "skipped", FALSE, NoError, NoError, TRUE,
                                 NoItem, NullUser)
    /\ UNCHANGED <<ls, user, navPending, batch401>>
    /\ UNCHANGED pageVars

\* The response to the GET /auth/me of initializeAuth.
InitResponse ==
    \E o \in InFlight("init", "me") :
        /\ ops' = Without(o)
        /\ isLoading' = FALSE
        /\ \/ \E data \in Identities :
                /\ ls' = ls
                /\ user' = InitSetUser(ls, data)
                /\ navPending' = navPending
                /\ last' = Event("init", "ok", FALSE, 200, NoError, o.solo, NoItem, data)
                /\ batch401' = batch401
           \/ \E status \in Errors :
                /\ ls' = InitCatch(ResponseInterceptor(ls, status))
                /\ user' = user
                /\ navPending' = (navPending \/ RedirectsToLogin(status))
                /\ last' = Event("init", "fail", FALSE, status, NoError, o.solo,
                                 NoItem, NullUser)
                /\ batch401' = Batch(status)
        /\ UNCHANGED mounted
        /\ UNCHANGED pageVars

\* ---------------------------------------------------------------- login
\* login up to its first await: setIsLoading(true), POST /auth/token.
LoginCall(via, solo) == Op("login", "token", via, solo, NoItem)

Login_NoSetLoading ==
    /\ mounted
    /\ UserOps < MaxOps
    /\ isLoading' = isLoading
    /\ ops' = Overlapped(ops) (+) SetToBag({LoginCall(FALSE, ops = EmptyBag)})
    /\ last' = Started("login", "POST /auth/token", ls)
    /\ batch401' = FALSE
    /\ UNCHANGED <<ls, user, mounted, navPending>>
    /\ UNCHANGED pageVars
Login ==
    /\ mounted
    /\ UserOps < MaxOps
    /\ isLoading' = TRUE
    /\ ops' = Overlapped(ops) (+) SetToBag({LoginCall(FALSE, ops = EmptyBag)})
    /\ last' = Started("login", "POST /auth/token", ls)
    /\ batch401' = FALSE
    /\ UNCHANGED <<ls, user, mounted, navPending>>
    /\ UNCHANGED pageVars

\* catch and finally of login (and, when register called it, of register),
\* run on the error of either request of login.
LoginFailed_StillLoading(o, status) ==
    /\ ops' = Without(o)
    /\ ls' = LoginCatchStorage(ResponseInterceptor(ls, status))
    /\ user' = LoginCatchUser(user)
    /\ isLoading' = isLoading
    /\ navPending' = (navPending \/ RedirectsToLogin(status))
    /\ last' = Event("login", "fail", o.via, status,
                     IF o.via THEN RegisterCatchThrow(LoginCatchThrow(status))
                              ELSE LoginCatchThrow(status),
                     o.solo, o.tok, NullUser)
    /\ batch401' = Batch(status)
    /\ UNCHANGED mounted
    /\ UNCHANGED pageVars
LoginFailed(o, status) ==
    /\ ops' = Without(o)
    /\ ls' = LoginCatchStorage(ResponseInterceptor(ls, status))
    /\ user' = LoginCatchUser(user)
    /\ isLoading' = FALSE
    /\ navPending' = (navPending \/ RedirectsToLogin(status))
    /\ last' = Event("login", "fail", o.via, status,
                     IF o.via THEN RegisterCatchThrow(LoginCatchThrow(status))
                              ELSE LoginCatchThrow(status),
                     o.solo, o.tok, NullUser)
    /\ batch401' = Batch(status)
    /\ UNCHANGED mounted
    /\ UNCHANGED pageVars

\* The response to POST /auth/token: store the token, GET /auth/me.
LoginTokenResponse ==
    \E o \in InFlight("login", "token") :
        \/ \E access_token \in Tokens :
             LET st == LoginStoreToken(ls, access_token)
             IN  /\ ls' = st
                 /\ ops' = Without(o) (+) SetToBag({[o EXCEPT !.pc = "me",
                                                      !.tok = TokenItem(access_token)]})
                 /\ last' = Ran("login", "token", o.via, 200, NoError, o.solo,
                                TokenItem(access_token), NullUser,
                                "GET /auth/me", RequestInterceptor(st))
                 /\ UNCHANGED <<user, isLoading, mounted, navPending, batch401>>
                 /\ UNCHANGED pageVars
        \/ \E status \in Errors : LoginFailed(o, status)

\* The response to the GET /auth/me of login.
LoginMeResponse ==
    \E o \in InFlight("login", "me") :
        \/ \E userData \in Identities :
             /\ ops' = Without(o)
             /\ ls' = LoginStoreUser(ls, userData)
             /\ user' = LoginSetUser(user, userData)
             /\ isLoading' = FALSE
             /\ last' = Event("login", "ok", o.via, 200, NoError, o.solo, o.tok, userData)
             /\ UNCHANGED <<mounted, navPending, batch401>>
             /\ UNCHANGED pageVars
        \/ \E status \in Errors : LoginFailed(o, status)

\* onSubmit of LoginPage and of SignupPage, after the await: the try branch
\* calls navigate(...) when login / register returned, the catch calls
\* setLoginError / setSignupError with the error thrown.
OnSubmitNavigates(run) == run.op = "login" /\ run.outcome = "ok"
OnSubmitSetsError(run) ==
    run.op \in {"login", "register"} /\ run.outcome = "fail" /\ run.thrown # NoError

\* ------------------------------------------------------------- register
Register ==
    /\ mounted
    /\ UserOps < MaxOps
    /\ isLoading' = TRUE
    /\ ops' = Overlapped(ops) (+) SetToBag({Op("register", "register", TRUE,
                                                ops = EmptyBag, NoItem)})
    /\ last' = Started("register", "POST /auth/register", ls)
    /\ batch401' = FALSE
    /\ UNCHANGED <<ls, user, mounted, navPending>>
    /\ UNCHANGED pageVars

\* The response to POST /auth/register: call login, or throw.
RegisterResponse_LoginAnyway ==
    \E o \in InFlight("register", "register"), status \in Statuses :
        /\ ops' = Without(o) (+) SetToBag({LoginCall(TRUE, o.solo)})
        /\ ls' = (IF status = 200 THEN ls ELSE ResponseInterceptor(ls, status))
        /\ isLoading' = TRUE
        /\ navPending' = (navPending \/ (status # 200 /\ RedirectsToLogin(status)))
        /\ last' = IF status = 200
                   THEN Ran("register", "registered", TRUE, status, NoError,
                            o.solo, NoItem, NullUser,
                            "POST /auth/token", RequestInterceptor(ls))
                   ELSE Ran("register", "fail", TRUE, status,
                            RegisterCatchThrow(status), o.solo, NoItem, NullUser,
                            "POST /auth/token", RequestInterceptor(ls))
        /\ batch401' = Batch(status)
        /\ UNCHANGED <<user, mounted>>
        /\ UNCHANGED pageVars

RegisterResponse ==
    \E o \in InFlight("register", "register"), status \in Statuses :
        /\ IF status = 200
           THEN /\ ops' = Without(o) (+) SetToBag({LoginCall(TRUE, o.solo)})
                /\ ls' = ls
                /\ isLoading' = TRUE
                /\ navPending' = navPending
                /\ last' = Ran("register", "registered", TRUE, status, NoError,
                               o.solo, NoItem, NullUser,
                               "POST /auth/token", RequestInterceptor(ls))
           ELSE /\ ops' = Without(o)
                /\ ls' = ResponseInterceptor(ls, status)
                /\ isLoading' = FALSE
                /\ navPending' = (navPending \/ RedirectsToLogin(status))
                /\ last' = Event("register", "fail", TRUE, status,
                                 RegisterCatchThrow(status), o.solo, NoItem, NullUser)
        /\ batch401' = Batch(status)
        /\ UNCHANGED <<user, mounted>>
        /\ UNCHANGED pageVars

\* --------------------------------------------------------------- logout
Logout ==
    /\ mounted
    /\ ls' = LogoutStorage(ls)
    /\ user' = LogoutUser(user)
    /\ ops' = Overlapped(ops)
    /\ last' = Event("logout", "done", FALSE, NoError, NoError, FALSE, NoItem, NullUser)
    /\ batch401' = FALSE
    /\ UNCHANGED <<isLoading, mounted, navPending>>
    /\ UNCHANGED pageVars

\* ---------------------------------------------------------- refreshUser
\* The token of the Login that succeeded in the handler run right before
\* (NoItem when the run before was something else).
AfterLogin == IF last.op = "login" /\ last.outcome = "ok" THEN last.tok ELSE NoItem

RefreshUser ==
    /\ mounted
    /\ UserOps < MaxOps
    /\ ops' = Overlapped(ops) (+) SetToBag({Op("refresh", "me", FALSE, FALSE,
                                                AfterLogin)})
    /\ last' = Started("refresh", "GET /auth/me", ls)
    /\ batch401' = FALSE
    /\ UNCHANGED <<ls, user, isLoading, mounted, navPending>>
    /\ UNCHANGED pageVars

RefreshResponse ==
    \E o \in InFlight("refresh", "me") :
        /\ ops' = Without(o)
        /\ \/ \E userData \in Identities :
                /\ ls' = RefreshStoreUser(ls, userData)
                /\ user' = userData
                /\ navPending' = navPending
                /\ last' = Event("refresh", "ok", FALSE, 200, NoError, o.solo,
                                 o.tok, userData)
                /\ batch401' = batch401
           \/ \E status \in Errors :
                /\ ls' = LogoutStorage(ResponseInterceptor(ls, status))
                /\ user' = LogoutUser(user)
                /\ navPending' = (navPending \/ RedirectsToLogin(status))
                /\ last' = Event("refresh", "fail", FALSE, status, NoError, o.solo,
                                 o.tok, NullUser)
                /\ batch401' = Batch(status)
        /\ UNCHANGED <<isLoading, mounted>>
        /\ UNCHANGED pageVars

\* ----------------------------------------------------------- updateUser
UpdateUser ==
    \E userData \in Identities :
        /\ mounted
        /\ ls' = UpdateStoreUser(ls, userData)
        /\ user' = userData
        /\ ops' = Overlapped(ops)
        /\ last' = Event("update", "done", FALSE, NoError, NoError, FALSE, NoItem, userData)
        /\ batch401' = FALSE
        /\ UNCHANGED <<isLoading, mounted, navPending>>
        /\ UNCHANGED pageVars

\* ------------------------------------------------------ any facade call
\* A page calls one operation of a facade (one request through `api`).
FacadeCall ==
    /\ mounted
    /\ UserOps < MaxOps
    /\ ops' = Overlapped(ops) (+) SetToBag({Op("facade", "req", FALSE, FALSE,
                                                NoItem)})
    /\ last' = Started("facade", "facade", ls)
    /\ batch401' = FALSE
    /\ UNCHANGED <<ls, user, isLoading, mounted, navPending>>
    /\ UNCHANGED pageVars

FacadeResponse ==
    \E o \in InFlight("facade", "req"), status \in Statuses :
        /\ ops' = Without(o)
        /\ ls' = (IF status = 200 THEN ls ELSE ResponseInterceptor(ls, status))
        /\ navPending' = (navPending \/ (status # 200 /\ RedirectsToLogin(status)))
        /\ last' = Event("facade", IF status = 200 THEN "ok" ELSE "fail", FALSE, status,
                         IF status = 200 THEN NoError ELSE status, o.solo, NoItem, NullUser)
        /\ batch401' = Batch(status)
        /\ UNCHANGED <<user, isLoading, mounted>>
        /\ UNCHANGED pageVars

\* ------------------------------------------- file download of the pages
\* handleResourceAction of ResourcesPage and of BookmarksPage, file branch:
\* the page reads access_token from localStorage itself and calls fetch, not
\* the shared client, so neither interceptor runs.
DownloadRequest == "fetch /resources/{id}/download"

\* The headers option the page passes to fetch.
DownloadHeader(token) == <<"Bearer", token[1]>>

HandleResourceAction ==
    /\ mounted
    /\ UserOps < MaxOps
    /\ LET token == getItem(ls, "access_token")
       IN  IF Truthy(token)
           THEN /\ ops' = Overlapped(ops) (+) SetToBag({Op("download", "fetch", FALSE,
                                                           FALSE, NoItem)})
                /\ last' = Ran("download", "dispatched", FALSE, NoError, NoError, FALSE,
                               NoItem, NullUser, DownloadRequest, DownloadHeader(token))
           ELSE /\ ops' = ops
                /\ last' = Event("download", "skipped", FALSE, NoError, NoError, FALSE,
                                 NoItem, NullUser)
    /\ batch401' = FALSE
    /\ UNCHANGED <<ls, user, isLoading, mounted, navPending>>
    /\ UNCHANGED pageVars

\* fetch resolves with whatever status the backend answers and the page saves
\* the body as a file; it rejects only when the transport fails (status 0),
\* and the catch alerts.
DownloadResponse ==
    \E o \in InFlight("download", "fetch"), status \in Statuses :
        /\ ops' = Without(o)
        /\ last' = Event("download", IF status = 0 THEN "fail" ELSE "saved", FALSE,
                         status, NoError, FALSE, NoItem, NullUser)
        /\ UNCHANGED <<ls, user, isLoading, mounted, navPending, batch401>>
        /\ UNCHANGED pageVars

\* -------------------------------------------- Resources page: bookmarks
\* The updater passed to setBookmarkedResources by toggleBookmark.
ToggleLocal_AddOnly(prev, resourceId) == prev \cup {resourceId}
ToggleLocal(prev, resourceId) ==
    IF resourceId \in prev THEN prev \ {resourceId} ELSE prev \cup {resourceId}

\* POST /bookmarks/toggle/{id} on the backend: flips the membership.
BackendFlip(set, resourceId) ==
    IF resourceId \in set THEN set \ {resourceId} ELSE set \cup {resourceId}

\* A toggle request: sent (not yet handled by the backend) or answered.
Toggle(r, phase, status) == [r |-> r, phase |-> phase, status |-> status]

TogglesOf(r) == {t \in BagToSet(toggles) : t.r = r}

\* toggleBookmark up to its await: POST /bookmarks/toggle/{id}.
ToggleBookmark ==
    \E resourceId \in Resources :
        /\ BagCardinality(toggles) < MaxToggles
        /\ toggles' = toggles (+) SetToBag({Toggle(resourceId, "sent", 200)})
        /\ last' = Started("toggle", "POST /bookmarks/toggle", ls)
        /\ UNCHANGED <<ls, user, isLoading, mounted, navPending, ops, batch401>>
        /\ UNCHANGED <<bookmarkedResources, srvBookmarks, tally, listVars, profileVars>>

\* The backend handles a toggle request: it flips the membership and answers
\* 200, or refuses with an error status and flips nothing; when the transport
\* fails (status 0) the request may or may not have been handled.
BackendToggle ==
    \E t \in {x \in BagToSet(toggles) : x.phase = "sent"}, status \in Statuses,
       handled \in BOOLEAN :
        /\ handled = (status = 200) \/ status = 0
        /\ toggles' = (toggles (-) SetToBag({t})) (+) SetToBag({Toggle(t.r, "answered", status)})
        /\ srvBookmarks' = (IF handled THEN BackendFlip(srvBookmarks, t.r) ELSE srvBookmarks)
        /\ last' = Event("backend", "toggle", FALSE, NoError, NoError, FALSE, NoItem, NullUser)
        /\ UNCHANGED <<ls, user, isLoading, mounted, navPending, ops, batch401>>
        /\ UNCHANGED <<bookmarkedResources, tally, listVars, profileVars>>

\* The response to the toggle request reaches the page.
ToggleResponse_FlipOnFail ==
    \E t \in {x \in BagToSet(toggles) : x.phase = "answered"} :
        /\ toggles' = toggles (-) SetToBag({t})
        /\ IF t.status = 200
           THEN /\ bookmarkedResources' = ToggleLocal(bookmarkedResources, t.r)
                /\ tally' = [tally EXCEPT ![t.r].ok = IF @ = 1 THEN 2 ELSE 1]
                /\ ls' = ls
                /\ navPending' = navPending
                /\ last' = Event("toggle", "ok", FALSE, 200, NoError, FALSE, NoItem, NullUser)
           ELSE /\ bookmarkedResources' = ToggleLocal(bookmarkedResources, t.r)
                /\ tally' = [tally EXCEPT ![t.r].failed = TRUE]
                /\ ls' = ResponseInterceptor(ls, t.status)
                /\ navPending' = (navPending \/ RedirectsToLogin(t.status))
                /\ last' = Event("toggle", "fail", FALSE, t.status, NoError, FALSE,
                                 NoItem, NullUser)
        /\ UNCHANGED <<user, isLoading, mounted, ops, batch401, srvBookmarks, listVars, profileVars>>
ToggleResponse ==
    \E t \in {x \in BagToSet(toggles) : x.phase = "answered"} :
        /\ toggles' = toggles (-) SetToBag({t})
        /\ IF t.status = 200
           THEN /\ bookmarkedResources' = ToggleLocal(bookmarkedResources, t.r)
                /\ tally' = [tally EXCEPT ![t.r].ok = IF @ = 1 THEN 2 ELSE 1]
                /\ ls' = ls
                /\ navPending' = navPending
                /\ last' = Event("toggle", "ok", FALSE, 200, NoError, FALSE, NoItem, NullUser)
           ELSE /\ bookmarkedResources' = bookmarkedResources
                /\ tally' = [tally EXCEPT ![t.r].failed = TRUE]
                /\ ls' = ResponseInterceptor(ls, t.status)
                /\ navPending' = (navPending \/ RedirectsToLogin(t.status))
                /\ last' = Event("toggle", "fail", FALSE, t.status, NoError, FALSE,
                                 NoItem, NullUser)
        /\ UNCHANGED <<user, isLoading, mounted, ops, batch401, srvBookmarks, listVars, profileVars>>

\* --------------------------------------- Resources page: the resource list
\* Categories GET /categories of the stub backend returns.
Categories == {[id |-> 1, name |-> "Science"], [id |-> 2, name |-> "Arts"]}

\* String.prototype.toLowerCase, on the strings that occur.
toLowerCase(str) ==
    CASE str = "Science" -> "science"
      [] str = "Arts" -> "arts"
      [] str = "All" -> "all"
      [] str = "Files" -> "files"
      [] str = "Links" -> "links"
      [] OTHER -> str

\* Texts of the search box, values of the category and type selects, and the
\* values the ?query= and ?category= parameters of the URL may have.
SearchQueries == {"", "math"}
CategoryChoices == {toLowerCase(c) : c \in {"All"} \cup {cat.name : cat \in Categories}}
TypeChoices == {toLowerCase(t) : t \in {"All", "Files", "Links"}}
UrlCategories == {"all", "science", "Science"}

FilterFields == {"limit", "offset", "query", "category_ids", "resource_type"}

\* if (x) on an optional number and on an optional string.
TruthyNumber(f) == f # Undefined /\ f[1] # 0
TruthyString(f) == f # Undefined /\ f[1] # ""

\* resourcesAPI.getResources: the URLSearchParams it builds, as the sequence
\* of the <<name, value>> pairs appended.
getResources(params) ==
    (IF TruthyNumber(params.limit)
        THEN << <<"limit", ToString(params.limit[1])>> >> ELSE << >>)
    \o (IF TruthyNumber(params.offset)
        THEN << <<"offset", ToString(params.offset[1])>> >> ELSE << >>)
    \o (IF TruthyString(params.query)
        THEN << <<"query", params.query[1]>> >> ELSE << >>)

\* The params object fetchResources builds from the state of the render it
\* belongs to.
FetchParams(searchQuery, selectedCategory, selectedType, categories) ==
    Params(<<20>>, <<0>>,
           IF searchQuery # "" THEN <<searchQuery>> ELSE Undefined,
           IF selectedCategory # "all"
           THEN LET found == {cat \in categories : toLowerCase(cat.name) = selectedCategory}
                IN  IF found # {} THEN <<{cat.id : cat \in found}>> ELSE Undefined
           ELSE Undefined,
           IF selectedType # "all"
           THEN <<IF selectedType = "files" THEN "file" ELSE "link">>
           ELSE Undefined)

\* The list shown before any response: useState<Resource[]>([]).  A shown
\* list is named by the query string it answers.
NoList == << <<"useState", "[]">> >>

\* ResourcesPage as useState initialises it from the URL.
FreshPage(query, category) ==
    [mounted |-> FALSE, searchQuery |-> query, selectedCategory |-> category,
     selectedType |-> "all", categories |-> {}, resources |-> NoList,
     loading |-> TRUE]

\* A request of the page in flight.  params: for the resource list, the
\* params it was called with; for the category list, those the fetchResources
\* of the render that called fetchData will use.  viaData: fetchResources was
\* called by fetchData.
PageReq(kind, params, viaData) == [kind |-> kind, params |-> params, viaData |-> viaData]

\* The record of a call of resourcesAPI.getResources.
ListCall(params) == [made |-> TRUE, params |-> params, query |-> getResources(params)]

PageParams(page) ==
    FetchParams(page.searchQuery, page.selectedCategory, page.selectedType,
                page.categories)

\* The two mount effects: fetchData dispatches GET /categories, and
\* fetchResources dispatches GET /resources.
MountResources ==
    /\ ~resourcesPage.mounted
    /\ Truthy(getItem(ls, "access_token"))
    /\ BagCardinality(pageReqs) + 2 <= MaxListReqs
    /\ resourcesPage' = [resourcesPage EXCEPT !.mounted = TRUE, !.loading = TRUE]
    /\ pageReqs' = pageReqs (+) SetToBag({PageReq("categories", PageParams(resourcesPage), TRUE)})
                            (+) SetToBag({PageReq("list", PageParams(resourcesPage), FALSE)})
    /\ listCall' = ListCall(PageParams(resourcesPage))
    /\ last' = Started("resources", "GET /resources", ls)
    /\ UNCHANGED <<ls, user, isLoading, mounted, navPending, ops, batch401>>
    /\ UNCHANGED <<bookmarkedResources, srvBookmarks, toggles, tally, profileVars>>

\* The user edits the search box or picks another category or type; the
\* effect on [searchQuery, selectedCategory, selectedType] calls
\* fetchResources of the new render.
ChangeFilter ==
    \E q \in SearchQueries, c \in CategoryChoices, t \in TypeChoices :
        LET page == [resourcesPage EXCEPT !.searchQuery = q, !.selectedCategory = c,
                                          !.selectedType = t]
        IN  /\ resourcesPage.mounted
            /\ BagCardinality(pageReqs) < MaxListReqs
            /\ Cardinality({f \in {"searchQuery", "selectedCategory", "selectedType"} :
                               page[f] # resourcesPage[f]}) = 1
            /\ resourcesPage' = page
            /\ pageReqs' = pageReqs (+) SetToBag({PageReq("list", PageParams(page), FALSE)})
            /\ listCall' = ListCall(PageParams(page))
            /\ last' = Started("resources", "GET /resources", ls)
            /\ UNCHANGED <<ls, user, isLoading, mounted, navPending, ops, batch401>>
            /\ UNCHANGED <<bookmarkedResources, srvBookmarks, toggles, tally, profileVars>>

\* The response to GET /categories: setCategories, then the fetchResources of
\* the render that called fetchData; on failure, the catch and the finally of
\* fetchData.
CategoriesResponse ==
    \E r \in {x \in BagToSet(pageReqs) : x.kind = "categories"} :
        /\ \/ /\ resourcesPage' = [resourcesPage EXCEPT !.categories = Categories]
              /\ pageReqs' = (pageReqs (-) SetToBag({r}))
                                 (+) SetToBag({PageReq("list", r.params, TRUE)})
              /\ listCall' = ListCall(r.params)
              /\ last' = Ran("resources", "categories", FALSE, 200, NoError, FALSE, NoItem,
                             NullUser, "GET /resources", RequestInterceptor(ls))
              /\ UNCHANGED <<ls, navPending>>
           \/ \E status \in Errors :
                /\ resourcesPage' = [resourcesPage EXCEPT !.loading = FALSE]
                /\ pageReqs' = pageReqs (-) SetToBag({r})
                /\ listCall' = listCall
                /\ ls' = ResponseInterceptor(ls, status)
                /\ navPending' = (navPending \/ RedirectsToLogin(status))
                /\ last' = Event("resources", "fail", FALSE, status, NoError, FALSE,
                                 NoItem, NullUser)
        /\ UNCHANGED <<user, isLoading, mounted, ops, batch401>>
        /\ UNCHANGED <<bookmarkedResources, srvBookmarks, toggles, tally, profileVars>>

\* The response to GET /resources: setResources, or the catch of
\* fetchResources; then, when fetchData awaited it, its finally.
ListResponse ==
    \E r \in {x \in BagToSet(pageReqs) : x.kind = "list"} :
        /\ pageReqs' = pageReqs (-) SetToBag({r})
        /\ \/ /\ resourcesPage' = [resourcesPage EXCEPT
                                      !.resources = getResources(r.params),
                                      !.loading = IF r.viaData THEN FALSE ELSE @]
              /\ last' = Event("resources", "ok", FALSE, 200, NoError, FALSE, NoItem,
                               NullUser)
              /\ UNCHANGED <<ls, navPending>>
           \/ \E status \in Errors :
                /\ resourcesPage' = [resourcesPage EXCEPT
                                        !.loading = IF r.viaData THEN FALSE ELSE @]
                /\ ls' = ResponseInterceptor(ls, status)
                /\ navPending' = (navPending \/ RedirectsToLogin(status))
                /\ last' = Event("resources", "fail", FALSE, status, NoError, FALSE,
                                 NoItem, NullUser)
        /\ UNCHANGED <<user, isLoading, mounted, ops, batch401, listCall>>
        /\ UNCHANGED <<bookmarkedResources, srvBookmarks, toggles, tally, profileVars>>

\* ------------------------------------------ Profile page: change password
\* Texts typed into the three password inputs.
Passwords == {Repeat("a", 0), Repeat("a", 7), Repeat("a", 8), Repeat("b", 8)}

\* The least length handlePasswordChange accepts.
MinPasswordLength == 8

\* The two checks of handlePasswordChange, in the order of the code.
PasswordCheck_NoLength(passwordData) ==
    IF passwordData.newPassword # passwordData.confirmPassword THEN "mismatch" ELSE "ok"
PasswordCheck(passwordData) ==
    IF passwordData.newPassword # passwordData.confirmPassword THEN "mismatch"
    ELSE IF Len(passwordData.newPassword) < MinPasswordLength THEN "short"
    ELSE "ok"

\* The button of the password form: disabled={saving || !currentPassword ||
\* !newPassword}.
PasswordButtonEnabled ==
    /\ ~profilePage.saving
    /\ profilePage.passwordData.currentPassword # <<>>
    /\ profilePage.passwordData.newPassword # <<>>

\* onChange of one of the three inputs.
EditPassword ==
    \E field \in {"currentPassword", "newPassword", "confirmPassword"}, text \in Passwords :
        /\ mounted
        /\ text # profilePage.passwordData[field]
        /\ profilePage' = [profilePage EXCEPT !.passwordData[field] = text]
        /\ last' = Event("password", "edit", FALSE, NoError, NoError, FALSE, NoItem, NullUser)
        /\ UNCHANGED <<ls, user, isLoading, mounted, navPending, ops, batch401>>
        /\ UNCHANGED <<bookmarkedResources, srvBookmarks, toggles, tally, listVars,
                       passwordReqs>>

\* handlePasswordChange up to its await: the two checks, setSaving(true),
\* POST /users/me/change-password.
HandlePasswordChange ==
    /\ mounted
    /\ PasswordButtonEnabled
    /\ IF PasswordCheck(profilePage.passwordData) = "ok"
       THEN /\ profilePage' = [profilePage EXCEPT !.saving = TRUE]
            /\ passwordReqs' = passwordReqs + 1
            /\ last' = Started("password", "POST /users/me/change-password", ls)
       ELSE /\ UNCHANGED profileVars
            /\ last' = Event("password", "rejected", FALSE, NoError, NoError, FALSE,
                             NoItem, NullUser)
    /\ UNCHANGED <<ls, user, isLoading, mounted, navPending, ops, batch401>>
    /\ UNCHANGED <<bookmarkedResources, srvBookmarks, toggles, tally, listVars>>

\* The answer to the change-password request: the form is emptied on success;
\* the catch only alerts; finally setSaving(false).
PasswordResponse ==
    /\ passwordReqs > 0
    /\ passwordReqs' = passwordReqs - 1
    /\ \/ /\ profilePage' = [passwordData |-> FreshProfile.passwordData, saving |-> FALSE]
          /\ last' = Event("password", "ok", FALSE, 200, NoError, FALSE, NoItem, NullUser)
          /\ UNCHANGED <<ls, navPending>>
       \/ \E status \in Errors :
            /\ profilePage' = [profilePage EXCEPT !.saving = FALSE]
            /\ ls' = ResponseInterceptor(ls, status)
            /\ navPending' = (navPending \/ RedirectsToLogin(status))
            /\ last' = Event("password", "fail", FALSE, status, NoError, FALSE, NoItem,
                             NullUser)
    /\ UNCHANGED <<user, isLoading, mounted, ops, batch401>>
    /\ UNCHANGED <<bookmarkedResources, srvBookmarks, toggles, tally, listVars>>

\* --------------------------------------------------------------- reload
\* The navigation started by window.location.href = '/login' replaces the
\* page: the React state is rebuilt, the requests in flight are aborted and
\* the mount effect runs again.  localStorage survives.
Reload ==
    /\ navPending
    /\ navPending' = FALSE
    /\ user' = NullUser
    /\ isLoading' = TRUE
    /\ mounted' = FALSE
    /\ ops' = EmptyBag
    /\ batch401' = FALSE
    /\ last' = Event("load", "loaded", FALSE, NoError, NoError, FALSE, NoItem, NullUser)
    /\ bookmarkedResources' = {}
    /\ toggles' = EmptyBag
    /\ tally' = FreshTally(srvBookmarks)
    /\ resourcesPage' = FreshPage("", "all")
    /\ pageReqs' = EmptyBag
    /\ listCall' = NoCall
    /\ profilePage' = FreshProfile
    /\ passwordReqs' = 0
    /\ UNCHANGED <<ls, srvBookmarks>>

Next ==
    \/ InitializeAuth
    \/ InitResponse
    \/ Login
    \/ LoginTokenResponse
    \/ LoginMeResponse
    \/ Register
    \/ RegisterResponse
    \/ Logout
    \/ RefreshUser
    \/ RefreshResponse
    \/ UpdateUser
    \/ FacadeCall
    \/ FacadeResponse
    \/ HandleResourceAction
    \/ DownloadResponse
    \/ Reload

\* The session: every content of localStorage at page load; the bookmarks of
\* the backend play no part.
Init ==
    /\ ls \in StorageContents
    /\ srvBookmarks = {}
    /\ resourcesPage = FreshPage("", "all")
    /\ Loaded

Spec == Init /\ [][Next]_vars

\* Every request in flight is eventually answered (by a response or by a
\* failure) and React eventually runs the mount effect.
Fairness ==
    /\ WF_vars(InitializeAuth)
    /\ WF_vars(InitResponse)
    /\ WF_vars(LoginTokenResponse)
    /\ WF_vars(LoginMeResponse)
    /\ WF_vars(RegisterResponse)

\* The operations that set or clear isLoading, with logout and the reload.
NextLive ==
    \/ InitializeAuth
    \/ InitResponse
    \/ Login
    \/ LoginTokenResponse
    \/ LoginMeResponse
    \/ Register
    \/ RegisterResponse
    \/ Logout
    \/ Reload

SpecLive == Init /\ [][NextLive]_vars /\ Fairness

\* The Resources page of a signed-in user: the bookmark toggles alone, over
\* every bookmark membership the backend can hold at page load.
InitBookmarks ==
    /\ ls = [access_token |-> TokenItem("tok0"),
             user |-> Stringify([id |-> 1, email |-> "a@x.com"])]
    /\ srvBookmarks \in SUBSET Resources
    /\ resourcesPage = FreshPage("", "all")
    /\ Loaded

NextBookmarks ==
    \/ ToggleBookmark
    \/ BackendToggle
    \/ ToggleResponse
    \/ Reload

SpecBookmarks == InitBookmarks /\ [][NextBookmarks]_vars

\* The Resources page of a signed-in user: the resource list alone, over every
\* ?query= and ?category= the page can be opened with.
InitResources ==
    /\ ls = [access_token |-> TokenItem("tok0"),
             user |-> Stringify([id |-> 1, email |-> "a@x.com"])]
    /\ srvBookmarks = {}
    /\ resourcesPage \in {FreshPage(q, c) : q \in SearchQueries, c \in UrlCategories}
    /\ Loaded

NextResources ==
    \/ MountResources
    \/ ChangeFilter
    \/ CategoriesResponse
    \/ ListResponse
    \/ Reload

SpecResources == InitResources /\ [][NextResources]_vars

\* The Profile page of a signed-in user: the password form alone.
InitProfile ==
    /\ ls = [access_token |-> TokenItem("tok0"),
             user |-> Stringify([id |-> 1, email |-> "a@x.com"])]
    /\ srvBookmarks = {}
    /\ resourcesPage = FreshPage("", "all")
    /\ Loaded

NextProfile ==
    \/ InitializeAuth
    \/ InitResponse
    \/ EditPassword
    \/ HandlePasswordChange
    \/ PasswordResponse
    \/ Reload

SpecProfile == InitProfile /\ [][NextProfile]_vars

\* =================================================================
\* Properties
\* =================================================================
Paired(st) == Truthy(st.access_token) <=> Truthy(st.user)

\* Number of login operations (token call or identity fetch) in flight.
LoginsIn(B) == BagCardinality([o \in {x \in BagToSet(B) : x.kind = "login"} |-> B[o]])

\* The requests in flight, without the bookkeeping of the operations.
Requests(B) == {<<o.kind, o.pc>> : o \in BagToSet(B)}

\* The handler run that produced this state completed a register call.
RegisterDone ==
    \/ last.op = "register" /\ last.outcome = "fail"
    \/ last.op = "login" /\ last.via /\ last.outcome \in {"ok", "fail"}

\* C1 (as claimed): the persisted access token is present if and only if the
\* persisted identity is present; no step of the client takes a storage where
\* the two entries agree to one where one is present and the other absent.
C1_PairNeverTorn == [][Paired(ls) => Paired(ls')]_vars

\* C1 (amended): the two entries are always cleared together: a step that
\* removes the persisted access token leaves the persisted identity absent,
\* and a step that removes the persisted identity leaves the token absent.
C1_ClearedTogether ==
    [][ /\ (Truthy(ls.access_token) /\ ~Truthy(ls'.access_token)) => ~Truthy(ls'.user)
        /\ (Truthy(ls.user) /\ ~Truthy(ls'.user)) => ~Truthy(ls'.access_token) ]_vars

\* A Login that had persisted its token failed at the identity fetch with a
\* non-401 error and both entries are gone.
C1_Witness ==
    /\ last.op = "login" /\ last.outcome = "fail" /\ last.status = 500
    /\ Truthy(last.tok)
    /\ ls = EmptyStorage

\* C2: when a Register that no other operation overlapped completes, from
\* whatever session state it was invoked in, the session is Authenticated if
\* and only if the registration call, the token call and the identity fetch
\* all succeeded.
C2_RegisterAuthIff ==
    (RegisterDone /\ last.solo)
        => (isAuthenticated <=> (last.op = "login" /\ last.outcome = "ok"))

\* C3: a RefreshUser whose identity fetch fails leaves the session
\* Unauthenticated with neither the access token nor the identity persisted
\* (whatever ran before it, a successful Login in particular).
C3_RefreshFailureClears ==
    (last.op = "refresh" /\ last.outcome = "fail")
        => (user = NullUser /\ ~isAuthenticated /\ ls = EmptyStorage)

\* A RefreshUser called right after a successful Login has failed with an
\* error other than 401.
C3_Witness ==
    /\ last.op = "refresh" /\ last.outcome = "fail" /\ last.status \in {500, 0}
    /\ Truthy(last.tok)
    /\ user = NullUser /\ ls = EmptyStorage

\* C4: once a 401 has arrived while several requests were in flight and all
\* the operations in flight have completed (no new call made meanwhile), the
\* persisted access token and identity are both absent.
C4_No401Residue == (batch401 /\ ops = EmptyBag) => ls = EmptyStorage

\* C5: a startup initialization that runs alone and does not obtain the
\* identity (GET /auth/me fails, or is not even sent) ends Unauthenticated
\* with neither entry persisted, whatever localStorage held at page load.
C5_InitFailureClears ==
    (last.op = "init" /\ last.outcome \in {"skipped", "fail"} /\ last.solo)
        => (user = NullUser /\ ls = EmptyStorage)

\* C6: when a Login that no other operation overlapped completes with both
\* requests successful, the persisted token is the access_token returned, the
\* persisted identity parses to the identity returned, the in-memory identity
\* is that identity, and the session is Authenticated and no longer loading.
C6_LoginSuccess ==
    (last.op = "login" /\ last.outcome = "ok" /\ last.solo)
        => /\ Truthy(last.tok) /\ getItem(ls, "access_token") = last.tok
           /\ Truthy(getItem(ls, "user")) /\ Parse(getItem(ls, "user")) = last.ident
           /\ user = last.ident
           /\ isAuthenticated
           /\ ~isLoading

\* A Login called directly (not by register) returned tok1 and identity 2
\* over a storage that held something else.
C6_Witness ==
    /\ last.op = "login" /\ last.outcome = "ok" /\ last.solo /\ ~last.via
    /\ last.tok = TokenItem("tok1") /\ last.ident.id = 2
    /\ ls = [access_token |-> TokenItem("tok1"), user |-> Stringify(last.ident)]

\* C7: when either request of Login fails, Login returns with both entries
\* absent from storage and throws the error it received.
C7_LoginFailureClears ==
    (last.op = "login" /\ last.outcome = "fail")
        => /\ ls = EmptyStorage
           /\ last.status \in Errors /\ last.thrown = last.status

\* The identity fetch of a Login failed with a transport error after Login
\* had persisted its token.
C7_Witness ==
    /\ last.op = "login" /\ last.outcome = "fail" /\ ~last.via
    /\ Truthy(last.tok) /\ last.status = 0 /\ last.thrown = 0
    /\ ls = EmptyStorage

\* C8: every run of logout leaves the in-memory identity null and both
\* entries absent, throws nothing, leaves the requests in flight and the
\* loading flag as they were; run right after a logout it changes nothing.
C8_LogoutLocalIdempotent ==
    [][ /\ last'.op = "logout"
            => /\ user' = NullUser /\ ls' = EmptyStorage
               /\ last'.thrown = NoError /\ last'.sent = ""
               /\ Requests(ops') = Requests(ops)
               /\ BagCardinality(ops') = BagCardinality(ops)
               /\ isLoading' = isLoading /\ navPending' = navPending
        /\ (last.op = "logout" /\ last'.op = "logout")
            => (user' = user /\ ls' = ls) ]_vars

\* logout has run twice in a row.
C8_Witness ==
    /\ last.op = "logout" /\ last.again
    /\ user = NullUser /\ ls = EmptyStorage

\* C9: when the registration call fails, register throws that error, no
\* request of login is dispatched, the in-memory identity is untouched and
\* nothing is written to storage (the entries stay as they were unless the
\* response interceptor removed them on a 401).
C9_RegisterFailureNoLogin ==
    [][ (last'.op = "register" /\ last'.outcome = "fail")
            => /\ last'.thrown = last'.status /\ last'.status \in Errors
               /\ last'.sent = ""
               /\ LoginsIn(ops') = LoginsIn(ops)
               /\ BagCardinality(ops') = BagCardinality(ops) - 1
               /\ user' = user
               /\ getItem(ls', "access_token") \in {getItem(ls, "access_token"), NoItem}
               /\ getItem(ls', "user") \in {getItem(ls, "user"), NoItem}
               /\ (last'.status # Status401 => ls' = ls) ]_vars

\* A registration call has failed and nothing is in flight afterwards.
C9_Witness ==
    /\ last.op = "register" /\ last.outcome = "fail" /\ last.status = 500
    /\ ops = EmptyBag

\* C10: for a resource none of whose toggles failed or is still in flight,
\* after one successful toggle of a resource with no bookmark the backend
\* holds a bookmark and the page shows one, and after two successful toggles
\* the backend's membership and the page's set are what they were at page
\* load.
C10_ToggleRoundTrip ==
    \A r \in Resources :
        (TogglesOf(r) = {} /\ ~tally[r].failed)
            => /\ (tally[r].ok = 1 /\ ~tally[r].base)
                    => (r \in srvBookmarks /\ r \in bookmarkedResources)
               /\ tally[r].ok = 2
                    => /\ (r \in srvBookmarks <=> tally[r].base)
                       /\ r \notin bookmarkedResources

\* Resource 1 had no bookmark, was toggled twice with success, and has none.
C10_Witness ==
    /\ TogglesOf(1) = {} /\ ~tally[1].failed /\ ~tally[1].base
    /\ tally[1].ok = 2 /\ last.op = "toggle"
    /\ 1 \notin srvBookmarks /\ 1 \notin bookmarkedResources

\* A request that went through the shared client `api` (not through fetch).
ThroughClient(run) == run.sent # "" /\ run.sent # DownloadRequest

\* C11: whenever a request of the shared client is answered 401, the caller
\* observes a failure (never a success), and by the time it does both
\* persisted entries are gone and the navigation to /login has been started;
\* a caller that does not catch gets the 401 itself.
C11_UnauthorizedClearsThenRejects ==
    (last.status = Status401 /\ last.op # "download") =>
        /\ ls = EmptyStorage
        /\ navPending
        /\ last.outcome = "fail"
        /\ (last.op \in {"facade", "login", "register"} => last.thrown = Status401)

\* A facade call of a page that still shows a signed-in user was answered 401.
C11_Witness ==
    /\ last.op = "facade" /\ last.status = Status401 /\ last.thrown = Status401
    /\ isAuthenticated
    /\ ls = EmptyStorage /\ navPending

\* C12: when a request of the shared client fails with anything but a 401
\* (another error status, or no response at all), the response interceptor
\* leaves both persisted entries as they were, starts no navigation, and the
\* caller gets the error unchanged.  Checked on facade calls, whose callers
\* do not touch the storage themselves.
C12_OtherErrorsUntouched ==
    [][(last'.op = "facade" /\ last'.status \in Errors \ {Status401}) =>
          /\ ls' = ls
          /\ navPending' = navPending
          /\ last'.outcome = "fail"
          /\ last'.thrown = last'.status]_vars

\* A facade call failed without a response while a session was persisted.
C12_Witness ==
    /\ last.op = "facade" /\ last.status = 0 /\ last.thrown = 0
    /\ Truthy(ls.access_token) /\ Truthy(ls.user)
    /\ ~navPending

\* C13: every request dispatched through the shared client carries
\* "Bearer <t>" exactly when localStorage holds an access token t at the
\* moment of dispatch, with t the stored value, and carries no Authorization
\* header otherwise; dispatching a request never changes localStorage.
C13_BearerIffToken ==
    [][/\ ThroughClient(last') =>
            LET token == getItem(ls', "access_token")
            IN  IF Truthy(token) THEN last'.hdr = <<"Bearer", token[1]>>
                                 ELSE last'.hdr = <<>>
       /\ last'.outcome = "dispatched" => ls' = ls]_vars

\* login fetched the identity with the token it had just stored.
C13_Witness ==
    /\ last.op = "login" /\ last.sent = "GET /auth/me"
    /\ ls.access_token = TokenItem("tok1")
    /\ last.hdr = <<"Bearer", "tok1">>

C15_NoTokenNoRequest ==
    /\ last.op = "load" => (isLoading /\ user = NullUser /\ ops = EmptyBag)
    /\ ( /\ last.op = "init" /\ last.outcome \in {"dispatched", "skipped"}
         /\ ~Truthy(getItem(ls, "access_token")) )
       => /\ last.outcome = "skipped"
          /\ last.sent = ""
          /\ ops = EmptyBag
          /\ ~isLoading
          /\ user = NullUser

\* The page was loaded with a persisted identity but no token.
C15_Witness ==
    /\ last.op = "init" /\ last.outcome = "skipped" /\ last.sent = ""
    /\ ~Truthy(ls.access_token) /\ Truthy(ls.user)
    /\ ~isLoading /\ user = NullUser /\ ops = EmptyBag

\* C16: updateUser is local: it makes the given identity both the in-memory
\* and the persisted identity, dispatches no request, and leaves the
\* persisted token, isLoading and the requests in flight as they were.
C16_UpdateUserLocal ==
    [][last'.op = "update" =>
          /\ user' = last'.ident
          /\ Truthy(getItem(ls', "user")) /\ Parse(getItem(ls', "user")) = last'.ident
          /\ getItem(ls', "access_token") = getItem(ls, "access_token")
          /\ isLoading' = isLoading
          /\ last'.sent = ""
          /\ Requests(ops') = Requests(ops)
          /\ BagCardinality(ops') = BagCardinality(ops)
          /\ navPending' = navPending]_vars

\* updateUser made identity 2 the identity of a session with a persisted token.
C16_Witness ==
    /\ last.op = "update" /\ last.ident.id = 2
    /\ user.id = 2 /\ Parse(ls.user).id = 2
    /\ Truthy(ls.access_token)
    /\ ~isLoading

\* Number of initializeAuth, login and register operations awaiting a
\* response.
LoadingIn(B) ==
    BagCardinality([o \in {x \in BagToSet(B) : x.kind \in {"init", "login", "register"}}
                       |-> B[o]])

\* C17: as long as at most one of initializeAuth, login and register runs at
\* a time, isLoading is true in every state where one of them awaits a
\* response, and false when it has completed.  Stated as the step that
\* carries the property from one serialized state to the next (it holds in the
\* initial state, where nothing is in flight).
C17_LoadingWhileOutstanding ==
    [][( /\ LoadingIn(ops) <= 1 /\ LoadingIn(ops') <= 1
         /\ (LoadingIn(ops) = 1 => isLoading) )
       => /\ LoadingIn(ops') = 1 => isLoading'
          /\ (LoadingIn(ops') < LoadingIn(ops) /\ last'.op # "load") => ~isLoading'
          /\ (last'.op = "init" /\ last'.outcome = "skipped") => ~isLoading']_vars

\* A login that ran alone is awaiting the identity, and the session is loading.
C17_Witness ==
    /\ LoadingIn(ops) = 1
    /\ \E o \in InFlight("login", "me") : o.solo /\ ~o.via
    /\ isLoading

\* Names of the parameters in a query string.
QueryNames(query) == {query[i][1] : i \in 1..Len(query)}

\* C18: in every call of the resource list operation, each filter field the
\* caller supplied is in the query string of GET /resources, and each field
\* it left out is not.
C18_FiltersSerialized ==
    listCall.made =>
        \A f \in FilterFields :
            (listCall.params[f] # Undefined) <=> (f \in QueryNames(listCall.query))

\* Handler runs of the operations of AuthProvider.
AuthProviderOps == {"init", "login", "register", "logout", "refresh", "update"}

C20_DestroyedOnAny401 ==
    /\ (last.sent # "" /\ Truthy(getItem(ls, "access_token")))
          => last.hdr = <<"Bearer", getItem(ls, "access_token")[1]>>
    /\ last.op = "logout" => ls = EmptyStorage
    /\ last.status = Status401 => ls = EmptyStorage

\* Number of login operations awaiting the answer to their GET /auth/me.
LoginMeIn(B) ==
    BagCardinality([o \in {x \in BagToSet(B) : x.kind = "login" /\ x.pc = "me"}
                       |-> B[o]])

\* C21: the GET /auth/me of a login is dispatched only by the run that handles
\* a successful answer of the token endpoint to that login, after the token
\* was stored, and carries "Bearer" with the access_token just returned; a
\* login whose token call fails dispatches nothing.
C21_LoginOrder ==
    [][/\ (LoginMeIn(ops') > LoginMeIn(ops) \/ (last'.op = "login" /\ last'.sent = "GET /auth/me"))
          => /\ last'.op = "login" /\ last'.outcome = "token" /\ last'.status = 200
             /\ InFlight("login", "token") # {}
             /\ LoginMeIn(ops') = LoginMeIn(ops) + 1
             /\ Truthy(last'.tok)
             /\ getItem(ls', "access_token") = last'.tok
             /\ last'.hdr = <<"Bearer", last'.tok[1]>>
       /\ (last'.op = "login" /\ last'.outcome = "fail")
          => /\ last'.sent = ""
             /\ LoginMeIn(ops') <= LoginMeIn(ops)]_vars

\* A login running alone got tok0 from the token endpoint and is fetching the
\* identity with it.
C21_Witness ==
    /\ last.op = "login" /\ last.outcome = "token" /\ last.solo /\ ~last.via
    /\ last.tok = TokenItem("tok0")
    /\ last.hdr = <<"Bearer", "tok0">>
    /\ LoginMeIn(ops) = 1

\* C22: a logout is final for the operations in flight when it runs: when the
\* completion of an initializeAuth, login, register or refreshUser is the
\* next thing to happen after a logout, the session is still Unauthenticated
\* and neither entry is persisted.
C22_LogoutFinal ==
    [][( /\ last.op = "logout"
         /\ last'.op \in {"init", "login", "register", "refresh"}
         /\ last'.outcome \in {"ok", "fail"} )
       => (user' = NullUser /\ ls' = EmptyStorage)]_vars

\* C23: whenever the session is Authenticated (the in-memory identity is not
\* null), both the access token and the identity are persisted.
C23_AuthenticatedHasCredential ==
    isAuthenticated
        => (Truthy(getItem(ls, "access_token")) /\ Truthy(getItem(ls, "user")))

\* C24: when every request is eventually answered, the mount effect of a
\* loaded page eventually runs, the startup request does not stay in flight
\* forever, and a session that is loading eventually is not loading (or the
\* page is replaced by the navigation to /login), whatever the answers are.
C24_LoadingEnds ==
    /\ (~mounted) ~> mounted
    /\ (InFlight("init", "me") # {}) ~> (InFlight("init", "me") = {})
    /\ (mounted /\ isLoading) ~> (~isLoading \/ ~mounted)

\* A register whose nested login failed has completed and the session is not
\* loading.
C24_Witness ==
    /\ last.op = "login" /\ last.via /\ last.outcome = "fail"
    /\ ops = EmptyBag
    /\ ~isLoading

\* C25: a value is put under access_token only by the run of login that
\* handles a successful answer of the token endpoint, and it is the
\* access_token of that answer; while no token is stored (after a logout or a
\* 401, say) whatever else runs leaves it absent, and every request
\* dispatched carries no Authorization header.
C25_TokenOnlyFromLogin ==
    [][/\ (Truthy(getItem(ls', "access_token"))
             /\ getItem(ls', "access_token") # getItem(ls, "access_token"))
          => /\ last'.op = "login" /\ last'.outcome = "token" /\ last'.status = 200
             /\ getItem(ls', "access_token") = last'.tok
       /\ (~Truthy(getItem(ls', "access_token")) /\ last'.sent # "")
          => last'.hdr = <<>>]_vars

\* refreshUser succeeded over a storage without token: the identity is
\* persisted again, the token is not.
C25_Witness ==
    /\ last.op = "refresh" /\ last.outcome = "ok"
    /\ ~Truthy(ls.access_token) /\ Truthy(ls.user)
    /\ isAuthenticated

\* C26: for a resource whose toggles since the page was loaded have all
\* completed with success (at least one), the page shows it as bookmarked if
\* and only if the backend holds a bookmark for it, whatever bookmarks the
\* backend held when the page was loaded.
C26_LocalSetMatchesBackend ==
    \A r \in Resources :
        (TogglesOf(r) = {} /\ tally[r].ok >= 1 /\ ~tally[r].failed)
            => (r \in bookmarkedResources <=> r \in srvBookmarks)

\* The elements on which two sets differ.
Differ(a, b) == (a \ b) \cup (b \ a)

\* C27: the page's bookmarked set changes only in the run that handles a
\* successful answer to a toggle request, by the one resource toggled; the
\* click that dispatches the request and the run that handles a failure leave
\* the set as it is, and the failure is caught, not thrown on.
C27_SetChangesOnSuccessOnly ==
    [][/\ (bookmarkedResources' # bookmarkedResources /\ last'.op # "load")
          => /\ last'.op = "toggle" /\ last'.outcome = "ok" /\ last'.status = 200
             /\ Cardinality(Differ(bookmarkedResources', bookmarkedResources)) = 1
       /\ (last'.op = "toggle" /\ last'.outcome \in {"dispatched", "fail"})
          => bookmarkedResources' = bookmarkedResources
       /\ (last'.op = "toggle" /\ last'.outcome = "fail")
          => (last'.thrown = NoError /\ last'.status \in Errors)]_vars

\* A toggle of resource 2 failed while resource 1 was shown as bookmarked.
C27_Witness ==
    /\ last.op = "toggle" /\ last.outcome = "fail" /\ last.status = 500
    /\ tally[2].failed /\ tally[2].ok = 0
    /\ bookmarkedResources = {1}

\* C28: on the Resources page, once every request of the page has completed,
\* the last of them with success, the list shown is the answer to the request
\* for the filter values now selected, not the answer to an earlier request.
C28_LatestFilterShown ==
    ( /\ resourcesPage.mounted
      /\ pageReqs = EmptyBag
      /\ last.op = "resources" /\ last.outcome = "ok" )
    => resourcesPage.resources = getResources(PageParams(resourcesPage))

\* C29: the run in which LoginPage or SignupPage navigates to the protected
\* destination leaves the session Authenticated with the token and the
\* identity persisted; the run in which login or register fails sets the error
\* message, does not navigate to the protected destination and starts no
\* other navigation.
C29_NavigateOnlyOnSuccess ==
    [][/\ OnSubmitNavigates(last')
          => /\ isAuthenticated'
             /\ Truthy(getItem(ls', "access_token")) /\ Truthy(getItem(ls', "user"))
       /\ (last'.op \in {"login", "register"} /\ last'.outcome = "fail")
          => /\ OnSubmitSetsError(last')
             /\ ~OnSubmitNavigates(last')
             /\ navPending' = navPending]_vars

\* C30: handlePasswordChange dispatches the change-password request only when
\* the new password equals its confirmation and has at least 8 characters,
\* and then sets saving; when a check fails it dispatches nothing and leaves
\* saving and the three fields as they were; the run that handles the answer,
\* success or failure, leaves saving false.
C30_PasswordChangeGuarded ==
    [][LET pd == profilePage.passwordData
           valid == pd.newPassword = pd.confirmPassword /\ Len(pd.newPassword) >= 8
       IN  /\ (last'.op = "password" /\ last'.outcome \in {"dispatched", "rejected"})
              => IF valid
                 THEN /\ last'.sent = "POST /users/me/change-password"
                      /\ passwordReqs' = passwordReqs + 1
                      /\ profilePage'.saving
                      /\ profilePage'.passwordData = pd
                 ELSE /\ last'.sent = ""
                      /\ passwordReqs' = passwordReqs
                      /\ profilePage' = profilePage
                      /\ ~profilePage'.saving
           /\ passwordReqs' > passwordReqs => valid
           /\ (last'.op = "password" /\ last'.outcome \in {"ok", "fail"})
              => ~profilePage'.saving]_vars

\* A new password of 7 characters, equal to its confirmation, was refused.
C30_Witness ==
    /\ last.op = "password" /\ last.outcome = "rejected"
    /\ profilePage.passwordData.newPassword = profilePage.passwordData.confirmPassword
    /\ Len(profilePage.passwordData.newPassword) = 7
    /\ ~profilePage.saving /\ passwordReqs = 0

====
